---- MODULE Spec2Model ----
(***************************************************************************)
(* ggl -- global git log (src/main.go).                                    *)
(*                                                                         *)
(* Run loads the configuration, resolves the cutoff, calls GetGitLog for   *)
(* every configured repository in order, sorts the concatenated commits by *)
(* author time and prints FormatCommit of each.                            *)
(*                                                                         *)
(* Text is a sequence of tokens.  A token is either one whitespace         *)
(* character (" ", "\t", "\n", "\r") or a chunk of text without            *)
(* whitespace; hashes and commit messages are spelled character by         *)
(* character.  Times are integers.                                         *)
(***************************************************************************)
EXTENDS Integers, Sequences, FiniteSets, TLC

(***************************************************************************)
(* Program constants.                                                      *)
(***************************************************************************)
PAGE_SIZE == 1000

\* time.ParseDuration("-168h"): seven days, in the model's unit of one day
Week == 7

\* parent.String()[:9]
AbbrevLen == 9

\* length of plumbing.Hash.String(): 20 bytes in hexadecimal
HashLen == 40

(***************************************************************************)
(* Bounds of the model.                                                    *)
(***************************************************************************)
\* longest history of a repository in Worlds
MaxHist == 2

\* author times of commits range over 1..MaxTime
MaxTime == 3

\* longest commit message (in characters) in FormatWorlds
MaxMsgLen == 4

\* largest number of parents of a commit in FormatWorlds
MaxParents == 3

\* histories in PageWorlds have PAGE_SIZE - PageSlack .. PAGE_SIZE + PageSlack commits
PageSlack == 2

(***************************************************************************)
(* Strings.                                                                *)
(***************************************************************************)
Min(a, b) == IF a <= b THEN a ELSE b

NL == "\n"

SP == " "

\* unicode.IsSpace, on the characters the model uses
IsSpace(ch) == ch \in {" ", "\t", "\n", "\r"}

RECURSIVE TrimLeft(_)
TrimLeft(s) ==
    IF s # <<>> /\ IsSpace(Head(s)) THEN TrimLeft(Tail(s)) ELSE s

RECURSIVE TrimRight(_)
TrimRight(s) ==
    IF s # <<>> /\ IsSpace(s[Len(s)]) THEN TrimRight(SubSeq(s, 1, Len(s) - 1)) ELSE s

\* strings.TrimSpace
TrimSpace(s) == TrimRight(TrimLeft(s))

\* strings.Split(s, sep) for a one-character separator: n separators give
\* n + 1 elements, the text before the first separator, between two
\* separators, and after the last
Split(s, sep) ==
    LET seps   == { i \in 1..Len(s) : s[i] = sep }
        n      == Cardinality(seps)
        pos(k) == IF k = 0 THEN 0
                  ELSE IF k = n + 1 THEN Len(s) + 1
                  ELSE CHOOSE p \in seps : Cardinality({ q \in seps : q < p }) = k - 1
    IN  [k \in 1..(n + 1) |-> SubSeq(s, pos(k - 1) + 1, pos(k) - 1)]

\* Fprintln2 without the space fmt.Fprintln puts between operands
Fprintln2NoSeparator(a, b) == a \o b \o <<NL>>

\* fmt.Fprintln(w, a, b): the operands separated by one space, then a newline
Fprintln2(a, b) == a \o <<SP>> \o b \o <<NL>>

Hex == <<"0", "1", "2", "3", "4", "5", "6", "7", "8", "9", "a", "b", "c", "d", "e", "f">>

\* plumbing.Hash.String(): HashLen hexadecimal characters.  A hash value of
\* the model is a pair <<repository index, number>>.
HashString(h) ==
    [j \in 1..HashLen |->
        IF j = 1 THEN Hex[(h[1] % 16) + 1]
        ELSE IF j = 2 THEN Hex[(h[2] % 16) + 1]
        ELSE Hex[(j % 16) + 1]]

\* time.Time.Format(commitDateFormat): one chunk of text per time
TimeFormat(when) == <<"Date#" \o ToString(when)>>

(***************************************************************************)
(* FormatCommit (src/main.go:150-180)                                      *)
(***************************************************************************)
\* MergeParents abbreviating to one character less
RECURSIVE MergeParentsShort(_)
MergeParentsShort(parents) ==
    IF parents = <<>> THEN <<>>
    ELSE <<SP>> \o SubSeq(HashString(Head(parents)), 1, AbbrevLen - 1)
              \o MergeParentsShort(Tail(parents))

\* lines 160-162
RECURSIVE MergeParents(_)
MergeParents(parents) ==
    IF parents = <<>> THEN <<>>
    ELSE <<SP>> \o SubSeq(HashString(Head(parents)), 1, AbbrevLen)
              \o MergeParents(Tail(parents))

\* lines 174-176
RECURSIVE MessageLines(_)
MessageLines(lines) ==
    IF lines = <<>> THEN <<>>
    ELSE Fprintln2(<<SP, SP, SP>>, Head(lines)) \o MessageLines(Tail(lines))

FormatCommit(c) ==
    LET parents == c.Commit.ParentHashes
        w == <<"commit", SP>> \o HashString(c.Commit.Hash) \o <<NL>>
             \o <<"Repository:", SP, c.Repository.Name, NL>>
             \o (IF Len(parents) > 1
                 THEN <<"Merge:">> \o MergeParents(parents) \o <<NL>>
                 ELSE <<>>)
             \o <<"Author:", SP, c.Commit.Author.Name, SP,
                  "<", c.Commit.Author.Email, ">", NL>>
             \o <<"Date:", SP, SP, SP>> \o TimeFormat(c.Commit.Author.When) \o <<NL>>
             \o <<NL>>
             \o MessageLines(Split(c.Commit.Message, NL))
        out == TrimSpace(w)
    IN  out \o <<NL>>

(***************************************************************************)
(* Data (src/main.go:53-71) and the inputs of a run.                       *)
(***************************************************************************)
RepoNames == <<"A", "B">>

Repository(i, fetch) ==
    [Name |-> RepoNames[i], Path |-> RepoNames[i], Remote |-> "origin",
     Branch |-> "master", Fetch |-> fetch]

\* the index of a repository: its hashes start with it
RepoIndex(repo) == CHOOSE i \in 1..Len(RepoNames) : RepoNames[i] = repo.Path

\* the configurations config.yaml can hold: no, one or two repositories,
\* each with its own fetch flag
OneRepoConfigs ==
    { [Root |-> "root", Repositories |-> <<Repository(1, f)>>] : f \in BOOLEAN }

TwoRepoConfigs ==
    { [Root |-> "root", Repositories |-> <<Repository(1, f), Repository(2, g)>>] :
        f \in BOOLEAN, g \in BOOLEAN }

ConfigFiles ==
    { [Root |-> "root", Repositories |-> <<>>] } \cup OneRepoConfigs \cup TwoRepoConfigs

NoConfig == [Root |-> "", Repositories |-> <<>>]

\* values of the --until flag: absent, a date, a date with month 13
GoodDate == "2022-11-01"

BadDate == "2022-13-01"

UntilInputs == {"", GoodDate, BadDate}

\* time.Parse("2006-01-02", s): the time of the date, or an error
TimeParse(s) ==
    IF s = GoodDate THEN [ok |-> TRUE, t |-> MaxTime]
    ELSE [ok |-> FALSE, t |-> 0]

\* time.Now()
Now == Week + 2

(***************************************************************************)
(* GitBackend: what go-git finds at one repository path.                   *)
(*   open, resolve, log: "ok" or "err"; fetch: "ok", "uptodate" or "err"   *)
(*   errAt: the call of cIter.Next that returns an error other than        *)
(*          io.EOF (0: none)                                               *)
(*   local:  the history at <remote>/<branch> before a fetch               *)
(*   remote: the history at <remote>/<branch> after a successful fetch     *)
(* A history is the sequence of raw commits in the order the iterator      *)
(* delivers them: committer time descending.                               *)
(***************************************************************************)
RawCommit(when, nparents, message) ==
    [When |-> when, NumParents |-> nparents, Message |-> message]

PlainMessage == <<"s", NL>>

Histories(n) ==
    UNION { [1..k -> {RawCommit(t, 1, PlainMessage) : t \in 1..MaxTime}] : k \in 0..n }

World(open, fetch, resolve, log, errAt, local, remote) ==
    [open |-> open, fetch |-> fetch, resolve |-> resolve, log |-> log,
     errAt |-> errAt, local |-> local, remote |-> remote]

\* what a fetch that is not already up to date brings: one new commit on top
Fetched(h) == <<RawCommit(MaxTime, 1, PlainMessage)>> \o h

OneCommit == <<RawCommit(MaxTime, 1, PlainMessage)>>

\* worlds without a fault whose remote is already up to date
Healthy(hs) == { World("ok", "uptodate", "ok", "ok", 0, h, h) : h \in hs }

\* Worlds: histories of at most one commit, fetched or already up to date,
\* and one world for each fault of the backend
Worlds ==
    { World("ok", "ok", "ok", "ok", 0, h, Fetched(h)) : h \in Histories(1) }
    \cup Healthy(Histories(1))
    \cup { World("err", "ok", "ok", "ok", 0, OneCommit, OneCommit),
           World("ok", "err", "ok", "ok", 0, OneCommit, OneCommit),
           World("ok", "ok", "err", "ok", 0, OneCommit, OneCommit),
           World("ok", "ok", "ok", "err", 0, OneCommit, OneCommit),
           World("ok", "uptodate", "ok", "ok", 1, OneCommit, OneCommit) }

\* the commit objects of a history: the k-th has hash <<repository, number>>,
\* numbered from the oldest, and the number is its committer time
ParentsOf(i, n, nparents) == [p \in 1..nparents |-> <<i, n + p>>]

Log(repo, hist) ==
    [k \in 1..Len(hist) |->
        [Hash         |-> <<RepoIndex(repo), Len(hist) - k + 1>>,
         Author       |-> [Name |-> "honza", Email |-> "honza@example", When |-> hist[k].When],
         Committer    |-> [When |-> Len(hist) - k + 1],
         ParentHashes |-> ParentsOf(RepoIndex(repo), Len(hist) - k + 1, hist[k].NumParents),
         Message      |-> hist[k].Message]]

(***************************************************************************)
(* State.                                                                  *)
(***************************************************************************)
VARIABLES
    Fetch,        \* --fetch
    Until,        \* --until
    pc,           \* where Run is: "start", "until", "loop", "returned", "panic"
    config,       \* the loaded Config
    until,        \* the cutoff
    idx,          \* index of the repository the loop of Run is at
    allCommits,   \* Run's allCommits
    err,          \* the error Run returns ("nil": none)
    stdout,       \* what has been written to standard output, one write per element
    world,        \* world[i]: what the backend held for the i-th repository
    calls,        \* calls[i]: the backend calls GetGitLog made for the i-th repository
    results       \* results[i]: what GetGitLog returned for the i-th repository

vars == <<Fetch, Until, pc, config, until, idx, allCommits, err, stdout, world, calls, results>>

(***************************************************************************)
(* GetGitLog (src/main.go:96-148)                                          *)
(***************************************************************************)
\* the iteration of the loop at lines 126-146 that leaves it: the first i in
\* 1..PAGE_SIZE at which Next returns io.EOF or an error, or the commit is
\* older than until; PAGE_SIZE + 1 when the loop condition ends the loop.
\* (No iteration follows the one at which Next returns io.EOF.)
StopAtOrBefore(hist, errAt, cutoff) ==
    LET stops == { i \in 1..Min(PAGE_SIZE, Len(hist) + 1) :
                     \/ i > Len(hist)
                     \/ i = errAt
                     \/ hist[i].Author.When <= cutoff }
    IN  IF stops = {} THEN PAGE_SIZE + 1
        ELSE CHOOSE i \in stops : \A j \in stops : i <= j

StopAtOffByOne(hist, errAt, cutoff) ==
    LET stops == { i \in 1..Min(PAGE_SIZE + 1, Len(hist) + 1) :
                     \/ i > Len(hist)
                     \/ i = errAt
                     \/ hist[i].Author.When < cutoff }
    IN  IF stops = {} THEN PAGE_SIZE + 2
        ELSE CHOOSE i \in stops : \A j \in stops : i <= j

StopAt(hist, errAt, cutoff) ==
    LET stops == { i \in 1..Min(PAGE_SIZE, Len(hist) + 1) :
                     \/ i > Len(hist)
                     \/ i = errAt
                     \/ hist[i].Author.When < cutoff }
    IN  IF stops = {} THEN PAGE_SIZE + 1
        ELSE CHOOSE i \in stops : \A j \in stops : i <= j

\* lines 126-147: the commits appended, and whether c is nil when
\* c.Author is read (Next returned an error other than io.EOF)
Walk(repo, hist, errAt, cutoff) ==
    LET stop == StopAt(hist, errAt, cutoff)
    IN  [commits |-> [k \in 1..(stop - 1) |->
                        [Repository |-> repo,
                         Commit     |-> hist[k],
                         Subject    |-> Split(hist[k].Message, NL)[1]]],
         panic   |-> stop = errAt /\ stop <= Len(hist) + 1 /\ stop <= PAGE_SIZE]

Outcome(commits, e, panic, out, cs) ==
    [commits |-> commits, err |-> e, panic |-> panic, out |-> out, calls |-> cs]

FetchingLine(repo) ==
    <<"Fetching", SP, repo.Name, ":", SP, repo.Remote, "/", repo.Branch, NL>>

UpToDateLine == <<SP, SP, "already", SP, "up-to-date", NL>>

\* DoFetch without the repository's own flag
DoFetchGlobalOnly(repo) == Fetch

\* line 106
DoFetch(repo) == Fetch /\ repo.Fetch

GetGitLog(cfg, repo, cutoff, w) ==
    LET doFetch == DoFetch(repo)
        out1    == IF doFetch THEN <<FetchingLine(repo)>> ELSE <<>>
        out2    == IF doFetch /\ w.fetch = "uptodate"
                   THEN out1 \o <<UpToDateLine>> ELSE out1
        cs1     == <<"PlainOpen">>
        cs2     == IF doFetch THEN cs1 \o <<"Fetch">> ELSE cs1
        cs3     == cs2 \o <<"ResolveRevision">>
        cs4     == cs3 \o <<"Log">>
        hist    == IF doFetch /\ w.fetch = "ok" THEN w.remote ELSE w.local
        walk    == Walk(repo, Log(repo, hist), w.errAt, cutoff)
    IN  IF w.open = "err" THEN Outcome(<<>>, "open", FALSE, <<>>, cs1)
        ELSE IF doFetch /\ w.fetch = "err" THEN Outcome(<<>>, "fetch", FALSE, out1, cs2)
        ELSE IF w.resolve = "err" THEN Outcome(<<>>, "resolve", FALSE, out2, cs3)
        ELSE IF w.log = "err" THEN Outcome(<<>>, "log", FALSE, out2, cs4)
        ELSE Outcome(walk.commits, "nil", walk.panic, out2, cs4)

(***************************************************************************)
(* sort.Sort(Commits(allCommits)) (src/main.go:73-79, 212)                 *)
(***************************************************************************)
\* Less with time.Before
LessBefore(a, b) == a.Commit.Author.When < b.Commit.Author.When

\* Commits.Less on two elements: time.After
Less(a, b) == a.Commit.Author.When > b.Commit.Author.When

RemoveAt(s, i) == SubSeq(s, 1, i - 1) \o SubSeq(s, i + 1, Len(s))

\* the permutations of s in which no element is Less than an element before it
RECURSIVE SortedPermutations(_)
SortedPermutations(s) ==
    IF s = <<>> THEN {<<>>}
    ELSE LET heads == { i \in 1..Len(s) : \A j \in 1..Len(s) : ~Less(s[j], s[i]) }
         IN  UNION { { <<s[i]>> \o r : r \in SortedPermutations(RemoveAt(s, i)) } : i \in heads }

\* SortOutcomes with a Swap that copies c[j] to c[i] and loses c[i]: the
\* first element is overwritten by the second
SortOutcomesLossySwap(s) ==
    { IF Len(r) >= 2 THEN [r EXCEPT ![1] = r[2]] ELSE r : r \in SortedPermutations(s) }

\* sort.Sort is not stable: its result is some permutation of the slice in
\* which no element is Less than an element before it
SortOutcomes(s) == SortedPermutations(s)

(***************************************************************************)
(* Run (src/main.go:182-219)                                               *)
(***************************************************************************)
\* fmt.Println(s)
Println(s) == s \o <<NL>>

Init ==
    /\ Fetch \in BOOLEAN
    /\ Until \in UntilInputs
    /\ pc = "start"
    /\ config = NoConfig
    /\ until = 0
    /\ idx = 1
    /\ allCommits = <<>>
    /\ err = "nil"
    /\ stdout = <<>>
    /\ world = <<>>
    /\ calls = <<>>
    /\ results = <<>>

\* lines 183-186: loadConfig fails, or yields a configuration of C
RunLoadConfigOver(C) ==
    /\ pc = "start"
    /\ \/ /\ pc' = "returned"
          /\ err' = "config"
          /\ UNCHANGED config
       \/ /\ \E cfg \in C : config' = cfg
          /\ pc' = "until"
          /\ UNCHANGED err
    /\ UNCHANGED <<Fetch, Until, until, idx, allCommits, stdout, world, calls, results>>

RunLoadConfig == RunLoadConfigOver(ConfigFiles)

\* lines 190-200
RunParseUntil ==
    /\ pc = "until"
    /\ IF Until = ""
       THEN /\ until' = Now - Week
            /\ pc' = "loop"
            /\ UNCHANGED err
       ELSE IF TimeParse(Until).ok
       THEN /\ until' = TimeParse(Until).t
            /\ pc' = "loop"
            /\ UNCHANGED err
       ELSE /\ pc' = "returned"
            /\ err' = "until"
            /\ UNCHANGED until
    /\ UNCHANGED <<Fetch, Until, config, idx, allCommits, stdout, world, calls, results>>

\* RunLoopOver printing the commits gathered so far when GetGitLog fails
RunLoopOverPartial(W) ==
    /\ pc = "loop"
    /\ idx <= Len(config.Repositories)
    /\ \E w \in W :
          LET res == GetGitLog(config, config.Repositories[idx], until, w)
          IN  /\ world' = Append(world, w)
              /\ calls' = Append(calls, res.calls)
              /\ IF res.panic
                 THEN /\ pc' = "panic"
                      /\ stdout' = stdout \o res.out
                      /\ UNCHANGED <<err, allCommits, idx, results>>
                 ELSE /\ results' = Append(results, [commits |-> res.commits, err |-> res.err])
                      /\ IF res.err # "nil"
                         THEN /\ pc' = "returned"
                              /\ err' = res.err
                              /\ stdout' = stdout \o res.out \o
                                   [k \in 1..Len(allCommits) |-> FormatCommit(allCommits[k]) \o <<NL>>]
                              /\ UNCHANGED <<allCommits, idx>>
                         ELSE /\ allCommits' = allCommits \o res.commits
                              /\ idx' = idx + 1
                              /\ stdout' = stdout \o res.out
                              /\ UNCHANGED <<pc, err>>
    /\ UNCHANGED <<Fetch, Until, config, until>>

\* lines 202-210: one iteration of the loop over config.Repositories, with
\* the backend holding some world of W for the repository
RunLoopOver(W) ==
    /\ pc = "loop"
    /\ idx <= Len(config.Repositories)
    /\ \E w \in W :
          LET res == GetGitLog(config, config.Repositories[idx], until, w)
          IN  /\ world' = Append(world, w)
              /\ calls' = Append(calls, res.calls)
              /\ stdout' = stdout \o res.out
              /\ IF res.panic
                 THEN /\ pc' = "panic"
                      /\ UNCHANGED <<err, allCommits, idx, results>>
                 ELSE /\ results' = Append(results, [commits |-> res.commits, err |-> res.err])
                      /\ IF res.err # "nil"
                         THEN /\ pc' = "returned"
                              /\ err' = res.err
                              /\ UNCHANGED <<allCommits, idx>>
                         ELSE /\ allCommits' = allCommits \o res.commits
                              /\ idx' = idx + 1
                              /\ UNCHANGED <<pc, err>>
    /\ UNCHANGED <<Fetch, Until, config, until>>

RunLoop == RunLoopOver(Worlds)

\* lines 212-218
RunSortPrint ==
    /\ pc = "loop"
    /\ idx > Len(config.Repositories)
    /\ \E sorted \in SortOutcomes(allCommits) :
          /\ allCommits' = sorted
          /\ stdout' = stdout \o [k \in 1..Len(sorted) |-> Println(FormatCommit(sorted[k]))]
    /\ pc' = "returned"
    /\ err' = "nil"
    /\ UNCHANGED <<Fetch, Until, config, until, idx, world, calls, results>>

Next ==
    \/ RunLoadConfig
    \/ RunParseUntil
    \/ RunLoop
    \/ RunSortPrint

Spec == Init /\ [][Next]_vars

(***************************************************************************)
(* The same run over other inputs.                                         *)
(***************************************************************************)
\* SpecWalk: one repository, every history of at most MaxHist commits
WalkWorlds == Healthy(Histories(MaxHist))

WalkLoadConfig == RunLoadConfigOver(OneRepoConfigs)

WalkLoop == RunLoopOver(WalkWorlds)

NextWalk ==
    \/ WalkLoadConfig
    \/ RunParseUntil
    \/ WalkLoop
    \/ RunSortPrint

SpecWalk == Init /\ [][NextWalk]_vars

\* SpecSort: two repositories, every history of at most MaxHist commits
SortLoadConfig == RunLoadConfigOver({[Root |-> "root",
                                      Repositories |-> <<Repository(1, FALSE), Repository(2, FALSE)>>]})

SortLoop == RunLoopOver(WalkWorlds)

NextSort ==
    \/ SortLoadConfig
    \/ RunParseUntil
    \/ SortLoop
    \/ RunSortPrint

InitSort == Init /\ ~Fetch /\ Until = ""

SpecSort == InitSort /\ [][NextSort]_vars

\* SpecPage: two repositories with histories of about PAGE_SIZE commits, all
\* of time MaxTime but at most one old commit, up to the end of the loop of
\* Run (lines 202-210)
PageHistory(n, oldAt) ==
    [k \in 1..n |-> RawCommit(IF k = oldAt THEN 1 ELSE MaxTime, 1, PlainMessage)]

PageWorlds ==
    Healthy({ PageHistory(n, o) :
                n \in (PAGE_SIZE - PageSlack)..(PAGE_SIZE + PageSlack),
                o \in {0, PAGE_SIZE, PAGE_SIZE + 1} })

PageLoadConfig == RunLoadConfigOver({[Root |-> "root",
                                      Repositories |-> <<Repository(1, FALSE), Repository(2, FALSE)>>]})

PageLoop == RunLoopOver(PageWorlds)

NextPage ==
    \/ PageLoadConfig
    \/ RunParseUntil
    \/ PageLoop

InitPage == Init /\ ~Fetch /\ Until = ""

SpecPage == InitPage /\ [][NextPage]_vars

\* SpecFormat: one repository with one commit, of every message of at most
\* MaxMsgLen characters and of 0..MaxParents parents
MessageChars == {"a", SP, NL}

Messages == UNION { [1..k -> MessageChars] : k \in 0..MaxMsgLen }

FormatWorlds ==
    Healthy({ <<RawCommit(MaxTime, n, m)>> : n \in 0..MaxParents, m \in Messages })

FormatLoadConfig == RunLoadConfigOver({[Root |-> "root", Repositories |-> <<Repository(1, FALSE)>>]})

FormatLoop == RunLoopOver(FormatWorlds)

NextFormat ==
    \/ FormatLoadConfig
    \/ RunParseUntil
    \/ FormatLoop
    \/ RunSortPrint

InitFormat == Init /\ ~Fetch /\ Until = ""

SpecFormat == InitFormat /\ [][NextFormat]_vars

(***************************************************************************)
(* Properties.                                                             *)
(***************************************************************************)
Range(f) == { f[k] : k \in DOMAIN f }

Succeeded == pc = "returned" /\ err = "nil"

Failed == pc = "returned" /\ err # "nil"

Repo(i) == config.Repositories[i]

\* the history GetGitLog read for the i-th repository: the fetched one when
\* it called Fetch and the fetch brought something, else the local one
HistoryRead(i) ==
    Log(Repo(i), IF "Fetch" \in Range(calls[i]) /\ world[i].fetch = "ok"
                 THEN world[i].remote ELSE world[i].local)

When(c) == c.Commit.Author.When

\* what GetGitLog makes of the k-th commit of a history
Record(i, h, k) ==
    [Repository |-> Repo(i), Commit |-> h[k], Subject |-> Split(h[k].Message, NL)[1]]

\* the commit blocks written to standard output, in order, and the commit a
\* block is the rendering of
PrintedBlocks == SelectSeq(stdout, LAMBDA t : t[1] = "commit")

\* the commit blocks written are the renderings of the commits of seq, in
\* the order of seq
PrintedAre(seq) ==
    PrintedBlocks = [k \in 1..Len(seq) |-> Println(FormatCommit(seq[k]))]

\* the concatenation of what GetGitLog returned, in configuration order
RECURSIVE ConcatResults(_)
ConcatResults(i) ==
    IF i = 0 THEN <<>> ELSE ConcatResults(i - 1) \o results[i].commits

Gathered == ConcatResults(Len(results))

PositionIn(seq, c) == CHOOSE k \in 1..Len(seq) : seq[k] = c

C2_NotBeforeCutoff ==
    /\ \A i \in 1..Len(results) : \A k \in 1..Len(results[i].commits) :
          When(results[i].commits[k]) >= until
    /\ \A k \in 1..Len(allCommits) : When(allCommits[k]) >= until
    /\ \A i \in 1..Len(results) :
          results[i].err = "nil" =>
            \A k \in 1..Min(Len(HistoryRead(i)), PAGE_SIZE) :
               (/\ \A j \in 1..(k - 1) : HistoryRead(i)[j].Author.When >= until
                /\ HistoryRead(i)[k].Author.When = until)
               => Record(i, HistoryRead(i), k) \in Range(results[i].commits)

\* C2 witness: GetGitLog returned a commit whose author time equals the
\* cutoff from a history that also holds an older commit
C2_Witness ==
    \E i \in 1..Len(results) :
       /\ \E k \in 1..Len(results[i].commits) : When(results[i].commits[k]) = until
       /\ \E k \in 1..Len(HistoryRead(i)) : HistoryRead(i)[k].Author.When < until

\* C3: for a history of fewer than PAGE_SIZE commits, GetGitLog returns
\* every commit of the history whose author time is not older than the
\* cutoff, also when author times and committer times order differently.
C3_EveryQualifyingCommitReturned ==
    \A i \in 1..Len(results) :
       (results[i].err = "nil" /\ Len(HistoryRead(i)) < PAGE_SIZE) =>
          \A k \in 1..Len(HistoryRead(i)) :
             HistoryRead(i)[k].Author.When >= until
             => Record(i, HistoryRead(i), k) \in Range(results[i].commits)

\* the lines Run may have written when it fails: the notes of the fetches
NoteLines ==
    { FetchingLine(Repo(i)) : i \in 1..Len(world) } \cup { UpToDateLine }

\* C4 (as stated): when Run returns an error, nothing has been written to
\* standard output.
C4_NoOutputOnError == Failed => stdout = <<>>

\* C4 (amended): when Run returns an error, or dies, no commit has been
\* written to standard output: all it holds are the "Fetching" and "already
\* up-to-date" notes of the repositories GetGitLog was called for.
C4_NoCommitOutputOnError ==
    (Failed \/ pc = "panic") =>
        /\ PrintedBlocks = <<>>
        /\ \A k \in 1..Len(stdout) : stdout[k] \in NoteLines

\* C4 witness: the second repository failed after the first one had
\* delivered commits and a fetch note had been written
C4_Witness ==
    /\ Failed
    /\ Len(world) = 2
    /\ allCommits # <<>>
    /\ stdout # <<>>

C6_AtMostPageSize ==
    \A i \in 1..Len(results) :
       /\ Len(results[i].commits) <= PAGE_SIZE
       /\ (/\ Len(HistoryRead(i)) >= PAGE_SIZE
           /\ \A k \in 1..PAGE_SIZE : HistoryRead(i)[k].Author.When >= until)
          => /\ results[i].err = "nil"
             /\ results[i].commits = [k \in 1..PAGE_SIZE |-> Record(i, HistoryRead(i), k)]
             /\ idx > i
             /\ pc = "loop"

\* C6 witness: the first repository had more than PAGE_SIZE commits at or
\* after the cutoff, PAGE_SIZE were returned, and GetGitLog has returned for
\* the second repository too
C6_Witness ==
    /\ Len(results) = 2
    /\ Len(HistoryRead(1)) > PAGE_SIZE
    /\ \A k \in 1..Len(HistoryRead(1)) : HistoryRead(1)[k].Author.When >= until
    /\ Len(results[1].commits) = PAGE_SIZE

\* C7: GetGitLog fetches a repository it has opened exactly when --fetch
\* and the repository's fetch flag are both set, and never otherwise; the
\* fetch comes after PlainOpen and before ResolveRevision and Log; without
\* it the commits returned are those of the local history.
C7_FetchIffBothFlags ==
    \A i \in 1..Len(calls) :
       LET both == Fetch /\ Repo(i).Fetch
           cs   == calls[i]
       IN  /\ ("Fetch" \in Range(cs)) <=> (both /\ world[i].open = "ok")
           /\ cs[1] = "PlainOpen"
           /\ \A k \in 1..Len(cs) :
                 /\ cs[k] = "Fetch" => k = 2
                 /\ cs[k] \in {"ResolveRevision", "Log"} /\ both => k > 2
           /\ (~both /\ i <= Len(results)) =>
                 \A k \in 1..Len(results[i].commits) :
                    results[i].commits[k] = Record(i, Log(Repo(i), world[i].local), k)

\* C7 witness: with --fetch, the first repository was fetched and read, and
\* the second, whose own flag is off and whose remote has a new commit, was
\* read without a fetch
C7_Witness ==
    /\ Len(results) = 2
    /\ Fetch
    /\ Repo(1).Fetch /\ "Fetch" \in Range(calls[1]) /\ "Log" \in Range(calls[1])
    /\ ~Repo(2).Fetch /\ "Log" \in Range(calls[2])
    /\ world[2].remote # world[2].local
    /\ results[2].commits # <<>>

\* the lines of a printed block, and the commit of SpecFormat
BlockLines(t) == Split(t, NL)

TheCommit == results[1].commits[1]

TheBlock == PrintedBlocks[1]

\* the lines among ls that start with the chunk first
LinesWith(ls, first) == { k \in 1..Len(ls) : ls[k] # <<>> /\ ls[k][1] = first }

\* C8: the block of a commit with more than one parent has exactly one
\* Merge: line, it is the third line, between the Repository: line and the
\* Author: line, and lists a space and the first AbbrevLen characters of the
\* hash of each parent, in order; the block of a commit with no or one
\* parent has no Merge: line.
C8_MergeLine ==
    (Succeeded /\ Len(PrintedBlocks) = 1) =>
        LET ls      == BlockLines(TheBlock)
            parents == TheCommit.Commit.ParentHashes
        IN  IF Len(parents) > 1
            THEN /\ LinesWith(ls, "Merge:") = {3}
                 /\ ls[2][1] = "Repository:"
                 /\ ls[4][1] = "Author:"
                 /\ Len(ls[3]) = 1 + Len(parents) * (AbbrevLen + 1)
                 /\ \A p \in 1..Len(parents) :
                       /\ ls[3][1 + (p - 1) * (AbbrevLen + 1) + 1] = SP
                       /\ \A j \in 1..AbbrevLen :
                             ls[3][1 + (p - 1) * (AbbrevLen + 1) + 1 + j]
                                = HashString(parents[p])[j]
            ELSE /\ LinesWith(ls, "Merge:") = {}
                 /\ ls[2][1] = "Repository:"
                 /\ ls[3][1] = "Author:"

\* C8 witness: the block of a commit with three parents was printed
C8_Witness ==
    /\ Succeeded
    /\ Len(PrintedBlocks) = 1
    /\ Len(TheCommit.Commit.ParentHashes) = 3

\* the line among ls that starts with Date:
DateLine(ls) == CHOOSE k \in LinesWith(ls, "Date:") : TRUE

\* the last line of a message that holds a character other than whitespace
\* (0: none)
LastInk(lines) ==
    LET ink == { k \in 1..Len(lines) : \E j \in 1..Len(lines[k]) : ~IsSpace(lines[k][j]) }
    IN  IF ink = {} THEN 0 ELSE CHOOSE k \in ink : \A j \in ink : k >= j

\* FormatCommit's result: what Run printed without the newline of Println
Formatted(t) == SubSeq(t, 1, Len(t) - 1)

OneNewlineAtEnd(b) ==
    /\ ~IsSpace(b[1])
    /\ b[Len(b)] = NL
    /\ ~IsSpace(b[Len(b) - 1])

\* C9 (as stated): after the blank line that follows the Date: line, every
\* line of the message is there as three spaces and the text of the line,
\* and the block is trimmed and ends in one newline.
C9_ThreeSpacesVerbatim ==
    (Succeeded /\ Len(PrintedBlocks) = 1) =>
        LET b    == Formatted(TheBlock)
            ls   == BlockLines(b)
            d    == DateLine(ls)
            msg  == Split(TheCommit.Commit.Message, NL)
        IN  /\ OneNewlineAtEnd(b)
            /\ \A k \in 1..Len(msg) :
                  /\ d + 1 + k <= Len(ls)
                  /\ ls[d + 1 + k] = <<SP, SP, SP>> \o msg[k]

\* C9 (amended): every line of the message up to its last line with a
\* character other than whitespace is there as four spaces (the three of the
\* operand and the one Fprintln puts between operands) and the text of the
\* line, the last of them without its trailing whitespace; the message lines
\* after it are not there; a message of whitespace only leaves nothing after
\* the Date: line; the block has no leading whitespace and ends in exactly
\* one newline.
C9_FourSpacesTrimmed ==
    (Succeeded /\ Len(PrintedBlocks) = 1) =>
        LET b    == Formatted(TheBlock)
            ls   == BlockLines(b)
            d    == DateLine(ls)
            msg  == Split(TheCommit.Commit.Message, NL)
            last == LastInk(msg)
        IN  /\ OneNewlineAtEnd(b)
            /\ IF last = 0
               THEN Len(ls) = d + 1 /\ ls[d + 1] = <<>>
               ELSE /\ Len(ls) = d + 1 + last + 1
                    /\ ls[d + 1] = <<>>
                    /\ \A k \in 1..(last - 1) : ls[d + 1 + k] = <<SP, SP, SP, SP>> \o msg[k]
                    /\ ls[d + 1 + last] = <<SP, SP, SP, SP>> \o TrimRight(msg[last])
                    /\ ls[d + 1 + last + 1] = <<>>

\* C9 witness: the block of a commit whose message has a blank line before
\* its last line of text was printed
C9_Witness ==
    /\ Succeeded
    /\ Len(PrintedBlocks) = 1
    /\ LET msg == Split(TheCommit.Commit.Message, NL)
       IN  \E k \in 1..Len(msg) : msg[k] = <<>> /\ k < LastInk(msg)

\* the failure of the backend GetGitLog met at the i-th repository ("nil":
\* none)
BackendFailure(i) ==
    LET w == world[i]
    IN  IF w.open = "err" THEN "open"
        ELSE IF Fetch /\ Repo(i).Fetch /\ w.fetch = "err" THEN "fetch"
        ELSE IF w.resolve = "err" THEN "resolve"
        ELSE IF w.log = "err" THEN "log"
        ELSE IF w.errAt # 0 /\ w.errAt <= Len(HistoryRead(i)) + 1 THEN "iterator"
        ELSE "nil"

\* C10: every failure of the backend inside GetGitLog -- of open, fetch,
\* resolving the revision, creating the iterator, or of the iterator during
\* the walk -- makes Run return that error without going on to a later
\* repository.
C10_BackendFailureReturned ==
    \A i \in 1..Len(world) :
       BackendFailure(i) # "nil" =>
          /\ pc = "returned"
          /\ err = BackendFailure(i)
          /\ Len(world) = i

====
